---- MODULE Spec2Model ----
(***************************************************************************)
(* Model of the openviking_mcp gateway: request-context building           *)
(* (context.py), credential resolution (auth.py), the authorization gates  *)
(* and admin tools (tools/admin.py) and the server lifespan (server.py).   *)
(*                                                                         *)
(* Python values are modelled as follows.  An Optional[str] is a string,   *)
(* with None the reserved string below.  A JSON response string is the     *)
(* record of the object it serialises.  A value that is either None or an  *)
(* object is a record with a "kind" field.                                 *)
(***************************************************************************)
EXTENDS Naturals, FiniteSets, Sequences, TLC

\* ------------------------------------------------------------------ values

\* Python's None where a string is expected (Optional[str]).
None == "<None>"

\* Python's None where an object (identity, key manager, response) is expected.
NoneObj == [kind |-> "None"]

\* Truthiness of an Optional[str]: None and the empty string are falsy.
Truthy(s) == s # None /\ s # ""

\* Python's `x or d` on an Optional[str].
Or(x, d) == IF Truthy(x) THEN x ELSE d

Roles == {"ROOT", "ADMIN", "USER"}

\* Field values a key-store may put into a ResolvedIdentity.
AccountIds == {None, "", "acme", "other", "default"}
UserIds == {None, "", "alice"}
AgentIds == {None, "", "bot"}

ResolvedIdentity(a, u, g, r) ==
    [kind |-> "identity", account_id |-> a, user_id |-> u, agent_id |-> g, role |-> r]

\* Every ResolvedIdentity of the bounded universe.
AllIdentities ==
    {ResolvedIdentity(a, u, g, r) : a \in AccountIds, u \in UserIds, g \in AgentIds, r \in Roles}

\* Target account ids a caller may pass to an admin tool.
Accounts == {"acme", "other"}

\* ------------------------------------------------------------------- json

\* Python values, each with its type: those json reads and writes (None, bool,
\* str, int, list, dict with str keys) and two it does not read back: a tuple,
\* and an object json cannot serialize, known by its str().
PyNone == [py |-> "NoneType"]
PyBool(b) == [py |-> "bool", v |-> b]
PyStr(s) == [py |-> "str", v |-> s]
PyInt(n) == [py |-> "int", v |-> n]
PyList(l) == [py |-> "list", v |-> l]
PyTuple(l) == [py |-> "tuple", v |-> l]
PyDict(f) == [py |-> "dict", v |-> f]
PyObject(s) == [py |-> "object", str |-> s]

\* The empty dict.
EmptyDict == [k \in {} |-> PyNone]

\* JSON text, by its grammar: null, true/false, string, number, array, object.
JsNull == [js |-> "null"]
JsBool(b) == [js |-> IF b THEN "true" ELSE "false"]
JsString(s) == [js |-> "string", v |-> s]
JsNumber(n) == [js |-> "number", v |-> n]
JsArray(l) == [js |-> "array", v |-> l]
JsObject(f) == [js |-> "object", v |-> f]

\* json.dumps(obj, default=str): lists and tuples both become arrays; an
\* object json cannot serialize goes through `default`, so str(obj) is written.
RECURSIVE json_dumps(_)
json_dumps(obj) ==
    CASE obj.py = "NoneType" -> JsNull
      [] obj.py = "bool" -> JsBool(obj.v)
      [] obj.py = "str" -> JsString(obj.v)
      [] obj.py = "int" -> JsNumber(obj.v)
      [] obj.py \in {"list", "tuple"} -> JsArray([i \in DOMAIN obj.v |-> json_dumps(obj.v[i])])
      [] obj.py = "dict" -> JsObject([k \in DOMAIN obj.v |-> json_dumps(obj.v[k])])
      [] obj.py = "object" -> JsString(obj.str)

\* json.loads(text).
RECURSIVE json_loads(_)
json_loads(text) ==
    CASE text.js = "null" -> PyNone
      [] text.js = "true" -> PyBool(TRUE)
      [] text.js = "false" -> PyBool(FALSE)
      [] text.js = "string" -> PyStr(text.v)
      [] text.js = "number" -> PyInt(text.v)
      [] text.js = "array" -> PyList([i \in DOMAIN text.v |-> json_loads(text.v[i])])
      [] text.js = "object" -> PyDict([k \in DOMAIN text.v |-> json_loads(text.v[k])])

\* ------------------------------------------------------------ errors.py

\* permission_denied adding a details field, as format_error does.
permission_denied_with_details(message) ==
    [error |-> TRUE, code |-> "PERMISSION_DENIED", message |-> message, details |-> "{}"]

\* permission_denied(message): the JSON object {error, code, message}.
permission_denied(message) ==
    [error |-> TRUE, code |-> "PERMISSION_DENIED", message |-> message]

\* ----------------------------------------------------------- context.py

UserIdentifier(account, user, agent) ==
    [account |-> account, user |-> user, agent |-> agent]

RequestContext(user, role) == [user |-> user, role |-> role]

\* get_request_context whose anonymous fallback is a USER.
get_request_context_anonymous_user(identity) ==
    IF identity # NoneObj
    THEN RequestContext(
             UserIdentifier(Or(identity.account_id, "default"),
                            Or(identity.user_id, "default"),
                            Or(identity.agent_id, "default")),
             identity.role)
    ELSE RequestContext(UserIdentifier("default", "default", "default"), "USER")

\* get_request_context with `x if x is not None else "default"` in place of
\* `x or "default"`: an empty field is kept.
get_request_context_none_only(identity) ==
    IF identity # NoneObj
    THEN RequestContext(
             UserIdentifier(IF identity.account_id # None THEN identity.account_id ELSE "default",
                            IF identity.user_id # None THEN identity.user_id ELSE "default",
                            IF identity.agent_id # None THEN identity.agent_id ELSE "default"),
             identity.role)
    ELSE RequestContext(UserIdentifier("default", "default", "default"), "ROOT")

\* get_request_context(ctx): `identity` is the session's _ov_identity slot
\* (NoneObj when the attribute is missing or None).  The AppContext is fetched
\* by the code but not read, so it is no parameter here.
get_request_context(identity) ==
    IF identity # NoneObj
    THEN RequestContext(
             UserIdentifier(Or(identity.account_id, "default"),
                            Or(identity.user_id, "default"),
                            Or(identity.agent_id, "default")),
             identity.role)
    ELSE RequestContext(UserIdentifier("default", "default", "default"), "ROOT")

\* -------------------------------------------------------------- auth.py

\* Bearer tokens a caller may present.
Tokens == {"secret", "key-admin-acme", "key-user-acme", "bad"}

\* Exception classes a key-store lookup or an external operation may raise;
\* all derive from Exception.  OpenVikingError is the domain error.
Faults == {"OpenVikingError", "ValueError"}

Return(v) == [kind |-> "return", value |-> v]
Raise(e) == [kind |-> "raise", exc |-> e]

\* What a key-store lookup can do: return an identity, return None, raise.
LookupOutcomes ==
    {Return(i) : i \in AllIdentities} \cup {Return(NoneObj)} \cup {Raise(e) : e \in Faults}

\* An APIKeyManager: the root key it was built with and, per token, what its
\* lookup does.
APIKeyManager(root_key, lookup) ==
    [kind |-> "APIKeyManager", root_key |-> root_key, lookup |-> lookup]

\* `except Exception` catches every class deriving from Exception.
ExceptException(e) == e \in Faults

\* resolve_identity catching the domain error alone.
resolve_identity_domain_only(api_key_manager, token) ==
    IF api_key_manager = NoneObj THEN Return(NoneObj)
    ELSE LET r == api_key_manager.lookup[token] IN
         IF r.kind = "raise" /\ r.exc = "OpenVikingError" THEN Return(NoneObj) ELSE r

\* resolve_identity(api_key_manager, token): the outcome of the call.
resolve_identity(api_key_manager, token) ==
    IF api_key_manager = NoneObj THEN Return(NoneObj)
    ELSE LET r == api_key_manager.lookup[token] IN
         IF r.kind = "raise" /\ ExceptException(r.exc) THEN Return(NoneObj) ELSE r

\* ------------------------------------------------------- tools/admin.py

\* _require_root letting ADMIN through as well.
_require_root_or_admin(identity) ==
    LET request_ctx == get_request_context(identity) IN
    IF request_ctx.role \notin {"ROOT", "ADMIN"}
    THEN permission_denied("ROOT role required")
    ELSE NoneObj

\* _require_root(ctx): NoneObj (authorized) or the denial.
_require_root(identity) ==
    LET request_ctx == get_request_context(identity) IN
    IF request_ctx.role # "ROOT"
    THEN permission_denied("ROOT role required")
    ELSE NoneObj

\* _require_admin_or_root without the account comparison.
_require_admin_or_root_any_account(identity, account_id) ==
    LET request_ctx == get_request_context(identity) IN
    IF request_ctx.role = "ROOT" THEN NoneObj
    ELSE IF request_ctx.role = "ADMIN"
         THEN NoneObj
         ELSE permission_denied("ROOT or account ADMIN role required")

\* _require_admin_or_root(ctx, account_id): NoneObj or the denial.
_require_admin_or_root(identity, account_id) ==
    LET request_ctx == get_request_context(identity) IN
    IF request_ctx.role = "ROOT" THEN NoneObj
    ELSE IF request_ctx.role = "ADMIN" /\ request_ctx.user.account = account_id
         THEN NoneObj
         ELSE permission_denied("ROOT or account ADMIN role required")


\* "Auth not configured" check shared by the admin tools (admin.py:53-54 etc.).
DevModeDenial == permission_denied("Auth not configured (dev mode)")

\* format_error writing str(e.details) in place of the details.
format_error_str_details(e) ==
    json_dumps(PyDict([error |-> PyBool(TRUE), code |-> e.code, message |-> e.message,
                       details |-> PyStr("str(details)")]))

\* format_error(e) for a domain error e with the attributes code, message and
\* details: the JSON text that json.dumps(..., default=str) writes.
format_error(e) ==
    json_dumps(PyDict([error |-> PyBool(TRUE), code |-> e.code, message |-> e.message,
                       details |-> e.details]))

\* ------------------------------------------------------------ config.py

\* How a caller may give root_api_key to MCPServerConfig: not at all, or a value.
Absent == "<absent>"
RootKeyInputs == {Absent, None, "", "secret"}

\* MCPServerConfig(root_api_key=k); the field defaults to None.
MCPServerConfig(k) ==
    [kind |-> "MCPServerConfig", root_api_key |-> IF k = Absent THEN None ELSE k]

\* The keys from_ov_conf reads from a section.
ConfKeys == {"host", "port", "root_api_key", "cors_origins"}

\* The values a key is set to in the server and in the mcp_server section.
ServerValues ==
    [host |-> PyStr("A"), port |-> PyInt(8000), root_api_key |-> PyStr("server-key"),
     cors_origins |-> PyList(<<PyStr("https://a.example")>>)]
McpValues ==
    [host |-> PyStr("B"), port |-> PyInt(9000), root_api_key |-> PyStr("mcp-key"),
     cors_origins |-> PyList(<<PyStr("https://b.example")>>)]

\* A section (a dict) in which each key is absent, null or set, as `how` says.
Section(how, values) ==
    [k \in {x \in ConfKeys : how[x] # "absent"} |->
        IF how[k] = "null" THEN PyNone ELSE values[k]]

\* A config document (a dict) with or without each of its two sections.
Document(has_server, server, has_mcp, mcp) ==
    [k \in {x \in {"server", "mcp_server"} :
                (x = "server" /\ has_server) \/ (x = "mcp_server" /\ has_mcp)} |->
        IF k = "server" THEN server ELSE mcp]

\* dict.get(key, default): the value stored under the key, None included, or
\* the default when the key is not in the dict.
DictGet(d, key, default) == IF key \in DOMAIN d THEN d[key] ELSE default

\* cls(host=..., port=..., root_api_key=..., cors_origins=...).
MCPServerConfigOf(host, port, root_api_key, cors_origins) ==
    [kind |-> "MCPServerConfig", host |-> host, port |-> port,
     root_api_key |-> root_api_key, cors_origins |-> cors_origins]

\* MCPServerConfig.from_ov_conf: `exists` is os.path.exists(config_path) and
\* `data` the parsed document.
from_ov_conf(exists, data) ==
    IF ~exists
    THEN MCPServerConfigOf(PyStr("0.0.0.0"), PyInt(2033), PyNone, PyList(<<PyStr("*")>>))
    ELSE LET server == DictGet(data, "server", EmptyDict)
             mcp == DictGet(data, "mcp_server", EmptyDict)
         IN MCPServerConfigOf(
                DictGet(mcp, "host", DictGet(server, "host", PyStr("0.0.0.0"))),
                DictGet(mcp, "port", PyInt(2033)),
                DictGet(mcp, "root_api_key", DictGet(server, "root_api_key", PyNone)),
                DictGet(mcp, "cors_origins",
                        DictGet(server, "cors_origins", PyList(<<PyStr("*")>>))))

\* ------------------------------------------------------------ server.py

AppContext(svc, km) == [kind |-> "AppContext", service |-> svc, api_key_manager |-> km]

\* What load() finds in the backing store: account "acme" with its admin
\* "alice" and its user "bob".
LoadedStore ==
    [accounts |-> {"acme"}, users |-> {<<"acme", "alice", "admin">>, <<"acme", "bob", "user">>}]

\* The lookups of the key manager built at startup: the root key resolves to
\* ROOT, the keys of alice and bob to an ADMIN and a USER of "acme", anything
\* else faults.
LoadedLookup(root_key) ==
    [t \in Tokens |->
        IF t = root_key THEN Return(ResolvedIdentity(None, None, None, "ROOT"))
        ELSE IF t = "key-admin-acme"
             THEN Return(ResolvedIdentity("acme", "alice", None, "ADMIN"))
        ELSE IF t = "key-user-acme"
             THEN Return(ResolvedIdentity("acme", "bob", "bot", "USER"))
        ELSE Raise("OpenVikingError")]

\* ------------------------------------------------------------------ bounds

\* Tool invocations started over the process's life.
MaxCalls == 2

Sessions == {"s1", "s2"}
Users == {"alice", "bob"}
RoleArgs == {"user", "admin"}

\* Viking URIs a caller may pass to a filesystem tool.
Uris == {"viking://resources/docs"}

\* A session that no client has opened yet.
Unopened == "<unopened>"

\* What an external operation (key manager, service) does when called.
Outcomes == {"ok"} \cup Faults

\* The domain error the external collaborators raise.
DomainError ==
    [code |-> PyStr("CONFLICT"), message |-> PyStr("rejected"), details |-> PyDict(EmptyDict)]

\* ------------------------------------------------------------------- state

VARIABLES
    _server_config,   \* server.py:31, the module-level config reference
    state,            \* lifecycle state of the lifespan
    config,           \* the lifespan's local `config` (server.py:37)
    service,          \* the OpenVikingService handle: absent/constructed/initialized/closed
    app,              \* the AppContext yielded at server.py:55, NoneObj before
    closes,           \* how many times service.close() has run
    exit_cause,       \* how serving ended: "none" while it has not
    own_config,       \* the config given to the create_mcp_server call that
                      \* created the server whose lifespan runs, when known
    session_token,    \* per session: the token presented when it was opened
    _ov_identity,     \* per session: the identity slot read at context.py:34
    km_store,         \* the key manager's accounts and users
    inv,              \* per session: the invocation suspended at an await
    last,             \* the latest handler step: its inputs, gate and response
    ncalls,           \* tool invocations started so far
    probe             \* the latest application of a pure function

lifeVars == <<_server_config, state, config, service, app, closes, exit_cause,
              own_config>>
sessVars == <<session_token, _ov_identity>>
callVars == <<km_store, inv, last, ncalls>>
vars == <<lifeVars, sessVars, callVars, probe>>

Idle == [tool |-> "none"]
NoCall == [n |-> 0, tool |-> "none"]
NoProbe == [fn |-> "none"]

Init ==
    /\ _server_config = NoneObj
    /\ state = "UNINITIALIZED"
    /\ config = NoneObj
    /\ service = "absent"
    /\ app = NoneObj
    /\ closes = 0
    /\ exit_cause = "none"
    /\ own_config = NoneObj
    /\ session_token = [s \in Sessions |-> Unopened]
    /\ _ov_identity = [s \in Sessions |-> NoneObj]
    /\ km_store = [accounts |-> {}, users |-> {}]
    /\ inv = [s \in Sessions |-> Idle]
    /\ last = NoCall
    /\ ncalls = 0
    /\ probe = NoProbe

\* --------------------------------------------------------------- lifespan

\* create_mcp_server(config): stores the config in the module-level reference.
\* It may be called again while the lifespan starts and serves.
create_mcp_server(k) ==
    /\ state \in {"UNINITIALIZED", "STARTING", "READY"}
    /\ _server_config' = MCPServerConfig(k)
    /\ UNCHANGED <<state, config, service, app, closes, exit_cause, own_config, sessVars, callVars, probe>>

\* create_mcp_server(config) creating the server whose lifespan runs: like
\* every call it stores the config in the module-level reference; the server
\* it returns is given host, port and app_lifespan, not the root_api_key.
create_own_mcp_server(k) ==
    /\ state = "UNINITIALIZED"
    /\ own_config = NoneObj
    /\ _server_config' = MCPServerConfig(k)
    /\ own_config' = MCPServerConfig(k)
    /\ UNCHANGED <<state, config, service, app, closes, exit_cause, sessVars, callVars, probe>>

\* app_lifespan yielding the AppContext before the service is initialized.
app_lifespan_enter_yield_first ==
    /\ state = "UNINITIALIZED"
    /\ config' = IF _server_config # NoneObj THEN _server_config ELSE MCPServerConfig(Absent)
    /\ service' = "constructed"
    /\ app' = AppContext("service", NoneObj)
    /\ state' = "READY"
    /\ UNCHANGED <<_server_config, closes, exit_cause, own_config, sessVars, callVars, probe>>

\* app_lifespan, lines 37-40: read the config, construct the service and await
\* its initialize().
app_lifespan_enter ==
    /\ state = "UNINITIALIZED"
    /\ config' = IF _server_config # NoneObj THEN _server_config ELSE MCPServerConfig(Absent)
    /\ service' = "constructed"
    /\ state' = "STARTING"
    /\ UNCHANGED <<_server_config, app, closes, exit_cause, own_config, sessVars, callVars, probe>>

\* app_lifespan testing `config.root_api_key is not None` instead of its truth.
app_lifespan_initialized_not_none(outcome) ==
    /\ state = "STARTING"
    /\ service = "constructed"
    /\ IF outcome # "ok"
       THEN /\ state' = "FAILED"
            /\ UNCHANGED <<service, app>>
       ELSE /\ service' = "initialized"
            /\ IF config.root_api_key # None
               THEN UNCHANGED <<state, app>>
               ELSE /\ app' = AppContext("service", NoneObj)
                    /\ state' = "READY"
    /\ UNCHANGED <<_server_config, config, closes, exit_cause, own_config, sessVars, callVars, probe>>

\* app_lifespan, lines 40-55: initialize() returns or raises; with a truthy
\* root_api_key the key manager is constructed and load() awaited, otherwise
\* the AppContext is yielded without one.
app_lifespan_initialized(outcome) ==
    /\ state = "STARTING"
    /\ service = "constructed"
    /\ IF outcome # "ok"
       THEN /\ state' = "FAILED"
            /\ UNCHANGED <<service, app>>
       ELSE /\ service' = "initialized"
            /\ IF Truthy(config.root_api_key)
               THEN UNCHANGED <<state, app>>
               ELSE /\ app' = AppContext("service", NoneObj)
                    /\ state' = "READY"
    /\ UNCHANGED <<_server_config, config, closes, exit_cause, own_config, sessVars, callVars, probe>>

\* app_lifespan closing the service when the key manager fails to load.
app_lifespan_loaded_rollback(outcome) ==
    /\ state = "STARTING"
    /\ service = "initialized"
    /\ IF outcome # "ok"
       THEN /\ state' = "FAILED"
            /\ service' = "closed"
            /\ closes' = closes + 1
            /\ UNCHANGED app
       ELSE /\ app' = AppContext("service",
                         APIKeyManager(config.root_api_key, LoadedLookup(config.root_api_key)))
            /\ state' = "READY"
            /\ UNCHANGED <<service, closes>>
    /\ km_store' = IF outcome = "ok" THEN LoadedStore ELSE km_store
    /\ UNCHANGED <<_server_config, config, exit_cause, own_config, sessVars, inv, last, ncalls, probe>>

\* app_lifespan, lines 45-55: load() returns or raises; on return the
\* AppContext is yielded with the key manager.
app_lifespan_loaded(outcome) ==
    /\ state = "STARTING"
    /\ service = "initialized"
    /\ IF outcome # "ok"
       THEN /\ state' = "FAILED"
            /\ UNCHANGED app
       ELSE /\ app' = AppContext("service",
                         APIKeyManager(config.root_api_key, LoadedLookup(config.root_api_key)))
            /\ state' = "READY"
    /\ km_store' = IF outcome = "ok" THEN LoadedStore ELSE km_store
    /\ UNCHANGED <<_server_config, config, service, closes, exit_cause, own_config, sessVars, inv, last, ncalls, probe>>

\* How serving ends: the server shuts down, or a fatal error is thrown into the
\* lifespan at its yield.
ExitCauses == {"shutdown", "fault"}

\* app_lifespan with `except`-less cleanup after the yield instead of `finally`:
\* a fault thrown in at the yield leaves the lifespan without closing.
app_lifespan_exit_no_finally(cause) ==
    /\ state = "READY"
    /\ state' = IF cause = "fault" THEN "CLOSED" ELSE "CLOSING"
    /\ exit_cause' = cause
    /\ session_token' = [s \in Sessions |-> Unopened]
    /\ _ov_identity' = [s \in Sessions |-> NoneObj]
    /\ inv' = [s \in Sessions |-> Idle]
    /\ UNCHANGED <<_server_config, config, service, app, closes, own_config, km_store, last, ncalls, probe>>

\* app_lifespan, lines 54-57: serving ends, by shutdown or by a fault thrown in
\* at the yield; either way control enters the finally block, which awaits
\* service.close().  The sessions end with the serving and the handlers still
\* suspended are cancelled.
app_lifespan_exit(cause) ==
    /\ state = "READY"
    /\ state' = "CLOSING"
    /\ exit_cause' = cause
    /\ session_token' = [s \in Sessions |-> Unopened]
    /\ _ov_identity' = [s \in Sessions |-> NoneObj]
    /\ inv' = [s \in Sessions |-> Idle]
    /\ UNCHANGED <<_server_config, config, service, app, closes, own_config, km_store, last, ncalls, probe>>

\* app_lifespan, lines 57-58: service.close() has run.
app_lifespan_closed ==
    /\ state = "CLOSING"
    /\ service' = "closed"
    /\ closes' = closes + 1
    /\ state' = "CLOSED"
    /\ UNCHANGED <<_server_config, config, app, exit_cause, own_config, sessVars, callVars, probe>>

\* --------------------------------------------------------------- sessions

\* A client opens a session, presenting a token; the auth step resolves the
\* token and attaches the identity to the session when there is one.
open_session(s, token) ==
    /\ state = "READY"
    /\ session_token[s] = Unopened
    /\ session_token' = [session_token EXCEPT ![s] = token]
    /\ LET r == resolve_identity(app.api_key_manager, token) IN
       _ov_identity' = [_ov_identity EXCEPT ![s] =
                           IF r.kind = "return" THEN r.value ELSE NoneObj]
    /\ UNCHANGED <<lifeVars, callVars, probe>>

\* The auth step attaches an identity to a session that was opened without
\* one, when a later token resolves; handlers may be suspended on the session.
attach_identity(s, token) ==
    /\ state = "READY"
    /\ session_token[s] # Unopened
    /\ _ov_identity[s] = NoneObj
    /\ LET r == resolve_identity(app.api_key_manager, token) IN
       /\ r.kind = "return"
       /\ r.value # NoneObj
       /\ _ov_identity' = [_ov_identity EXCEPT ![s] = r.value]
    /\ session_token' = [session_token EXCEPT ![s] = token]
    /\ UNCHANGED <<lifeVars, callVars, probe>>

\* ------------------------------------------------------------ tool calls

\* A tool handler may start on session s.
CanCall(s) ==
    /\ state = "READY"
    /\ session_token[s] # Unopened
    /\ inv[s] = Idle
    /\ ncalls < MaxCalls

Pending == [kind |-> "pending"]
Raised(e) == [kind |-> "raised", exc |-> e]

\* A handler step building its request context from one slot kept for the
\* whole process instead of the caller's session.
Call_shared_slot(s, tool, account_id, gate, km_op, svc_op, fault, resp) ==
    [n |-> ncalls + 1, session |-> s, tool |-> tool, account_id |-> account_id,
     app |-> app,
     identity |-> _ov_identity[s], ctx |-> get_request_context(_ov_identity["s1"]),
     gate |-> gate, km_present |-> app.api_key_manager # NoneObj,
     km_op |-> km_op, svc_op |-> svc_op, fault |-> fault, resp |-> resp]

\* The record of a handler step of a new invocation on session s.
Call(s, tool, account_id, gate, km_op, svc_op, fault, resp) ==
    [n |-> ncalls + 1, session |-> s, tool |-> tool, account_id |-> account_id,
     app |-> app,
     identity |-> _ov_identity[s], ctx |-> get_request_context(_ov_identity[s]),
     gate |-> gate, km_present |-> app.api_key_manager # NoneObj,
     km_op |-> km_op, svc_op |-> svc_op, fault |-> fault, resp |-> resp]

\* An external operation asked to succeed fails with the domain error when its
\* precondition does not hold.
Result(pre, outcome) == IF outcome = "ok" /\ ~pre THEN "OpenVikingError" ELSE outcome

\* try/except Exception around a handler body: every fault becomes an envelope.
Handled_catch_all(o, value) ==
    IF o = "ok" THEN value
    ELSE format_error(DomainError)

\* try/except OpenVikingError around a handler body: the value returned, the
\* error envelope, or the fault that propagates.
Handled(o, value) ==
    IF o = "ok" THEN value
    ELSE IF o = "OpenVikingError" THEN format_error(DomainError)
    ELSE Raised(o)

\* The admin tools' opening with the key-manager check ahead of the role gate.
admin_opening_km_first(gate, api_key_manager) ==
    IF api_key_manager = NoneObj THEN DevModeDenial
    ELSE gate

\* How every admin tool opens (admin.py:50-54, 117-121 and alike): `gate` is
\* what the role gate returned; a denial from it is returned at once, and only
\* then is the key manager tested for None.  NoneObj: the handler goes on.
admin_opening(gate, api_key_manager) ==
    IF gate # NoneObj THEN gate
    ELSE IF api_key_manager = NoneObj THEN DevModeDenial
    ELSE NoneObj

\* The admin tools' opening without the key-manager check.
Refusal_gate_only(gate) == gate

\* The opening of an admin tool in the running server: the denial to return,
\* or NoneObj when the handler goes on.
Refusal(gate) == admin_opening(gate, app.api_key_manager)

UserKey(account_id, user_id) == <<"key", account_id, user_id>>

HasUser(account_id, user_id) ==
    \E r \in RoleArgs : <<account_id, user_id, r>> \in km_store.users

\* APIKeyManager.create_account / delete_account / register_user / remove_user
\* / set_role as the tools use them.
km_create_account(account_id, admin_user_id) ==
    [accounts |-> km_store.accounts \cup {account_id},
     users |-> km_store.users \cup {<<account_id, admin_user_id, "admin">>}]

km_delete_account(account_id) ==
    [accounts |-> km_store.accounts \ {account_id},
     users |-> {u \in km_store.users : u[1] # account_id}]

km_register_user(account_id, user_id, role) ==
    [km_store EXCEPT !.users = @ \cup {<<account_id, user_id, role>>}]

km_remove_user(account_id, user_id) ==
    [km_store EXCEPT !.users = {u \in @ : ~(u[1] = account_id /\ u[2] = user_id)}]

km_set_role(account_id, user_id, role) ==
    [km_store EXCEPT !.users =
        {u \in @ : ~(u[1] = account_id /\ u[2] = user_id)} \cup {<<account_id, user_id, role>>}]

\* A handler whose change to the store makes the AppContext drop its key manager.
Answer_drops_key_manager(s, call, store) ==
    /\ last' = call
    /\ ncalls' = ncalls + 1
    /\ km_store' = store
    /\ app' = IF store # km_store THEN AppContext(app.service, NoneObj) ELSE app
    /\ UNCHANGED <<inv, _server_config, state, config, service, closes, exit_cause, own_config,
                   sessVars, probe>>

\* A handler that answers in one step: the call's record and the store after it.
Answer(s, call, store) ==
    /\ last' = call
    /\ ncalls' = ncalls + 1
    /\ km_store' = store
    /\ UNCHANGED <<inv, lifeVars, sessVars, probe>>

\* A handler that suspends at its second await, keeping its locals.
Suspend(s, call, store, request_ctx, user_id, user_key) ==
    /\ last' = call
    /\ ncalls' = ncalls + 1
    /\ km_store' = store
    /\ inv' = [inv EXCEPT ![s] = [tool |-> call.tool, call |-> call, user_id |-> user_id,
                                  request_ctx |-> request_ctx, user_key |-> user_key]]
    /\ UNCHANGED <<lifeVars, sessVars, probe>>

\* system_status (tools/system.py:29-43).
system_status(s) ==
    /\ CanCall(s)
    /\ LET request_ctx == get_request_context(_ov_identity[s]) IN
       Answer(s, Call(s, "system_status", None, NoneObj, "none", "none", "none",
                      [initialized |-> TRUE, user |-> request_ctx.user,
                       role |-> request_ctx.role]),
              km_store)

\* fs_mkdir (tools/filesystem.py:105-118): the service's fs.mkdir is awaited
\* with the caller's request context; it returns or raises.
fs_mkdir(s, uri) ==
    /\ CanCall(s)
    /\ \E outcome \in Outcomes :
         Answer(s, Call(s, "fs_mkdir", None, NoneObj, "none", "fs.mkdir", outcome,
                        Handled(outcome, [uri |-> uri])),
                km_store)

admin_create_account(s, account_id, admin_user_id) ==
    /\ CanCall(s)
    /\ LET err == _require_root(_ov_identity[s])
           refusal == Refusal(err)
           request_ctx == get_request_context(_ov_identity[s])
       IN IF refusal # NoneObj
          THEN Answer(s, Call(s, "admin_create_account", account_id, err,
                              "none", "none", "none", refusal), km_store)
          ELSE \E outcome \in Outcomes :
               LET o == Result(account_id \notin km_store.accounts, outcome) IN
               IF o # "ok"
               THEN Answer(s, Call(s, "admin_create_account", account_id, err,
                                   "create_account", "none", o, Handled(o, NoneObj)), km_store)
               ELSE Suspend(s, Call(s, "admin_create_account", account_id, err,
                                    "create_account", "none", "ok", Pending),
                            km_create_account(account_id, admin_user_id),
                            request_ctx, admin_user_id, UserKey(account_id, admin_user_id))

\* admin_create_account building the request context after the key manager's
\* await instead of before it.
admin_create_account_resume_fresh_context(s) ==
    /\ state = "READY"
    /\ inv[s].tool = "admin_create_account"
    /\ \E outcome \in Outcomes :
         last' = [inv[s].call EXCEPT
                    !.ctx = get_request_context(_ov_identity[s]),
                    !.svc_op = "initialize_account_directories",
                    !.fault = outcome,
                    !.resp = Handled(outcome,
                                     [account_id |-> inv[s].call.account_id,
                                      admin_user_id |-> inv[s].user_id,
                                      user_key |-> inv[s].user_key])]
    /\ inv' = [inv EXCEPT ![s] = Idle]
    /\ UNCHANGED <<km_store, ncalls, lifeVars, sessVars, probe>>

\* admin_create_account, lines 59-68: initialize_account_directories returns
\* or raises and the handler answers.
admin_create_account_resume(s) ==
    /\ state = "READY"
    /\ inv[s].tool = "admin_create_account"
    /\ \E outcome \in Outcomes :
         last' = [inv[s].call EXCEPT
                    !.ctx = inv[s].request_ctx,
                    !.svc_op = "initialize_account_directories",
                    !.fault = outcome,
                    !.resp = Handled(outcome,
                                     [account_id |-> inv[s].call.account_id,
                                      admin_user_id |-> inv[s].user_id,
                                      user_key |-> inv[s].user_key])]
    /\ inv' = [inv EXCEPT ![s] = Idle]
    /\ UNCHANGED <<km_store, ncalls, lifeVars, sessVars, probe>>

admin_list_accounts(s) ==
    /\ CanCall(s)
    /\ LET err == _require_root(_ov_identity[s])
           refusal == Refusal(err)
       IN IF refusal # NoneObj
          THEN Answer(s, Call(s, "admin_list_accounts", None, err,
                              "none", "none", "none", refusal), km_store)
          ELSE \E outcome \in Outcomes :
               Answer(s, Call(s, "admin_list_accounts", None, err, "get_accounts", "none", outcome,
                              Handled(outcome, [accounts |-> km_store.accounts])),
                      km_store)

admin_delete_account(s, account_id) ==
    /\ CanCall(s)
    /\ LET err == _require_root(_ov_identity[s])
           refusal == Refusal(err)
       IN IF refusal # NoneObj
          THEN Answer(s, Call(s, "admin_delete_account", account_id, err,
                              "none", "none", "none", refusal), km_store)
          ELSE \E outcome \in Outcomes :
               LET o == Result(account_id \in km_store.accounts, outcome) IN
               Answer(s, Call(s, "admin_delete_account", account_id, err,
                              "delete_account", "none", o,
                              Handled(o, [account_id |-> account_id, deleted |-> TRUE])),
                      IF o = "ok" THEN km_delete_account(account_id) ELSE km_store)

admin_register_user(s, account_id, user_id, role) ==
    /\ CanCall(s)
    /\ LET err == _require_admin_or_root(_ov_identity[s], account_id)
           refusal == Refusal(err)
           request_ctx == get_request_context(_ov_identity[s])
       IN IF refusal # NoneObj
          THEN Answer(s, Call(s, "admin_register_user", account_id, err,
                              "none", "none", "none", refusal), km_store)
          ELSE \E outcome \in Outcomes :
               LET o == Result(account_id \in km_store.accounts
                                  /\ ~HasUser(account_id, user_id), outcome) IN
               IF o # "ok"
               THEN Answer(s, Call(s, "admin_register_user", account_id, err,
                                   "register_user", "none", o, Handled(o, NoneObj)), km_store)
               ELSE Suspend(s, Call(s, "admin_register_user", account_id, err,
                                    "register_user", "none", "ok", Pending),
                            km_register_user(account_id, user_id, role),
                            request_ctx, user_id, UserKey(account_id, user_id))

\* admin_register_user removing the user again when the directory
\* initialization fails.
admin_register_user_resume_rollback(s) ==
    /\ state = "READY"
    /\ inv[s].tool = "admin_register_user"
    /\ \E outcome \in Outcomes :
         /\ last' = [inv[s].call EXCEPT
                       !.ctx = inv[s].request_ctx,
                       !.svc_op = "initialize_user_directories",
                       !.fault = outcome,
                       !.resp = Handled(outcome,
                                        [account_id |-> inv[s].call.account_id,
                                         user_id |-> inv[s].user_id,
                                         user_key |-> inv[s].user_key])]
         /\ km_store' = IF outcome = "ok" THEN km_store
                        ELSE km_remove_user(inv[s].call.account_id, inv[s].user_id)
    /\ inv' = [inv EXCEPT ![s] = Idle]
    /\ UNCHANGED <<ncalls, lifeVars, sessVars, probe>>

\* admin_register_user, lines 126-135: initialize_user_directories returns or
\* raises and the handler answers.
admin_register_user_resume(s) ==
    /\ state = "READY"
    /\ inv[s].tool = "admin_register_user"
    /\ \E outcome \in Outcomes :
         last' = [inv[s].call EXCEPT
                    !.ctx = inv[s].request_ctx,
                    !.svc_op = "initialize_user_directories",
                    !.fault = outcome,
                    !.resp = Handled(outcome,
                                     [account_id |-> inv[s].call.account_id,
                                      user_id |-> inv[s].user_id,
                                      user_key |-> inv[s].user_key])]
    /\ inv' = [inv EXCEPT ![s] = Idle]
    /\ UNCHANGED <<km_store, ncalls, lifeVars, sessVars, probe>>

admin_list_users(s, account_id) ==
    /\ CanCall(s)
    /\ LET err == _require_admin_or_root(_ov_identity[s], account_id)
           refusal == Refusal(err)
       IN IF refusal # NoneObj
          THEN Answer(s, Call(s, "admin_list_users", account_id, err,
                              "none", "none", "none", refusal), km_store)
          ELSE \E outcome \in Outcomes :
               LET o == Result(account_id \in km_store.accounts, outcome) IN
               Answer(s, Call(s, "admin_list_users", account_id, err, "get_users", "none", o,
                              Handled(o, [users |-> {u \in km_store.users : u[1] = account_id}])),
                      km_store)

\* admin_remove_user gated on the caller's own account instead of the target.
admin_remove_user_own_account(s, account_id, user_id) ==
    /\ CanCall(s)
    /\ LET err == _require_admin_or_root(_ov_identity[s],
                                         get_request_context(_ov_identity[s]).user.account)
           refusal == Refusal(err)
       IN IF refusal # NoneObj
          THEN Answer(s, Call(s, "admin_remove_user", account_id, err,
                              "none", "none", "none", refusal), km_store)
          ELSE \E outcome \in Outcomes :
               LET o == Result(HasUser(account_id, user_id), outcome) IN
               Answer(s, Call(s, "admin_remove_user", account_id, err, "remove_user", "none", o,
                              Handled(o, [account_id |-> account_id, user_id |-> user_id,
                                          deleted |-> TRUE])),
                      IF o = "ok" THEN km_remove_user(account_id, user_id) ELSE km_store)

admin_remove_user(s, account_id, user_id) ==
    /\ CanCall(s)
    /\ LET err == _require_admin_or_root(_ov_identity[s], account_id)
           refusal == Refusal(err)
       IN IF refusal # NoneObj
          THEN Answer(s, Call(s, "admin_remove_user", account_id, err,
                              "none", "none", "none", refusal), km_store)
          ELSE \E outcome \in Outcomes :
               LET o == Result(HasUser(account_id, user_id), outcome) IN
               Answer(s, Call(s, "admin_remove_user", account_id, err, "remove_user", "none", o,
                              Handled(o, [account_id |-> account_id, user_id |-> user_id,
                                          deleted |-> TRUE])),
                      IF o = "ok" THEN km_remove_user(account_id, user_id) ELSE km_store)

\* admin_set_role gated by _require_admin_or_root.
admin_set_role_account_gate(s, account_id, user_id, role) ==
    /\ CanCall(s)
    /\ LET err == _require_admin_or_root(_ov_identity[s], account_id)
           refusal == Refusal(err)
       IN IF refusal # NoneObj
          THEN Answer(s, Call(s, "admin_set_role", account_id, err,
                              "none", "none", "none", refusal), km_store)
          ELSE \E outcome \in Outcomes :
               LET o == Result(HasUser(account_id, user_id), outcome) IN
               Answer(s, Call(s, "admin_set_role", account_id, err, "set_role", "none", o,
                              Handled(o, [account_id |-> account_id, user_id |-> user_id,
                                          role |-> role])),
                      IF o = "ok" THEN km_set_role(account_id, user_id, role) ELSE km_store)

admin_set_role(s, account_id, user_id, role) ==
    /\ CanCall(s)
    /\ LET err == _require_root(_ov_identity[s])
           refusal == Refusal(err)
       IN IF refusal # NoneObj
          THEN Answer(s, Call(s, "admin_set_role", account_id, err,
                              "none", "none", "none", refusal), km_store)
          ELSE \E outcome \in Outcomes :
               LET o == Result(HasUser(account_id, user_id), outcome) IN
               Answer(s, Call(s, "admin_set_role", account_id, err, "set_role", "none", o,
                              Handled(o, [account_id |-> account_id, user_id |-> user_id,
                                          role |-> role])),
                      IF o = "ok" THEN km_set_role(account_id, user_id, role) ELSE km_store)

\* ---------------------------------------------------------- specification

Next ==
    \/ \E k \in RootKeyInputs : create_mcp_server(k)
    \/ app_lifespan_enter
    \/ \E o \in Outcomes : app_lifespan_initialized(o)
    \/ \E o \in Outcomes : app_lifespan_loaded(o)
    \/ \E c \in ExitCauses : app_lifespan_exit(c)
    \/ app_lifespan_closed
    \/ \E s \in Sessions, t \in Tokens : open_session(s, t)
    \/ \E s \in Sessions : system_status(s)
    \/ \E s \in Sessions, u \in Uris : fs_mkdir(s, u)
    \/ \E s \in Sessions, a \in Accounts, u \in Users : admin_create_account(s, a, u)
    \/ \E s \in Sessions : admin_create_account_resume(s)
    \/ \E s \in Sessions : admin_list_accounts(s)
    \/ \E s \in Sessions, a \in Accounts : admin_delete_account(s, a)
    \/ \E s \in Sessions, a \in Accounts, u \in Users, r \in RoleArgs :
          admin_register_user(s, a, u, r)
    \/ \E s \in Sessions : admin_register_user_resume(s)
    \/ \E s \in Sessions, a \in Accounts : admin_list_users(s, a)
    \/ \E s \in Sessions, a \in Accounts, u \in Users : admin_remove_user(s, a, u)
    \/ \E s \in Sessions, a \in Accounts, u \in Users, r \in RoleArgs :
          admin_set_role(s, a, u, r)

Spec == Init /\ [][Next]_vars

\* ------------------------------------------------ late authentication

\* The server with sessions whose identity is attached after they were
\* opened, and the two admin tools that await twice.
LateAuthNext ==
    \/ \E k \in RootKeyInputs : create_mcp_server(k)
    \/ app_lifespan_enter
    \/ \E o \in Outcomes : app_lifespan_initialized(o)
    \/ \E o \in Outcomes : app_lifespan_loaded(o)
    \/ \E c \in ExitCauses : app_lifespan_exit(c)
    \/ app_lifespan_closed
    \/ \E s \in Sessions, t \in Tokens : open_session(s, t)
    \/ \E s \in Sessions, t \in Tokens : attach_identity(s, t)
    \/ \E s \in Sessions, a \in Accounts, u \in Users : admin_create_account(s, a, u)
    \/ \E s \in Sessions : admin_create_account_resume(s)
    \/ \E s \in Sessions, a \in Accounts, u \in Users, r \in RoleArgs :
          admin_register_user(s, a, u, r)
    \/ \E s \in Sessions : admin_register_user_resume(s)

LateAuthSpec == Init /\ [][LateAuthNext]_vars

\* ------------------------------------------------------- several servers

\* One process creating several servers: the lifespan that runs belongs to
\* the server made by create_own_mcp_server; the other calls of
\* create_mcp_server make other servers, before or after it.
ServersNext ==
    \/ \E k \in RootKeyInputs : create_own_mcp_server(k)
    \/ \E k \in RootKeyInputs : create_mcp_server(k)
    \/ app_lifespan_enter
    \/ \E o \in Outcomes : app_lifespan_initialized(o)
    \/ \E o \in Outcomes : app_lifespan_loaded(o)
    \/ \E c \in ExitCauses : app_lifespan_exit(c)
    \/ app_lifespan_closed
    \/ \E s \in Sessions, t \in Tokens : open_session(s, t)
    \/ \E s \in Sessions : system_status(s)

ServersSpec == Init /\ [][ServersNext]_vars

\* ------------------------------------------- the pure functions on their own

\* The admin tools, those gated by _require_root and those gated by
\* _require_admin_or_root on their account_id argument.
AdminTools == {"admin_create_account", "admin_list_accounts", "admin_delete_account",
               "admin_register_user", "admin_list_users", "admin_remove_user",
               "admin_set_role"}
RootOnlyTools == {"admin_create_account", "admin_list_accounts", "admin_delete_account",
                  "admin_set_role"}
AccountTools == {"admin_register_user", "admin_list_users", "admin_remove_user"}

\* The role gate a tool opens with.
ToolGate(tool, identity, account_id) ==
    IF tool \in RootOnlyTools THEN _require_root(identity)
    ELSE _require_admin_or_root(identity, account_id)

\* Account ids a caller may pass to a gate.
GateAccounts == Accounts \cup {"default"}

\* _require_root applied to a session holding `identity`.
apply_require_root(identity) ==
    /\ probe = NoProbe
    /\ probe' = [fn |-> "_require_root", identity |-> identity,
                 out |-> _require_root(identity)]
    /\ UNCHANGED <<lifeVars, sessVars, callVars>>

\* _require_admin_or_root applied to a session holding `identity`.
apply_require_admin_or_root(identity, account_id) ==
    /\ probe = NoProbe
    /\ probe' = [fn |-> "_require_admin_or_root", identity |-> identity,
                 account_id |-> account_id,
                 out |-> _require_admin_or_root(identity, account_id)]
    /\ UNCHANGED <<lifeVars, sessVars, callVars>>

\* get_request_context applied to a session holding `identity`.
apply_get_request_context(identity) ==
    /\ probe = NoProbe
    /\ probe' = [fn |-> "get_request_context", identity |-> identity,
                 out |-> get_request_context(identity)]
    /\ UNCHANGED <<lifeVars, sessVars, callVars>>

\* resolve_identity applied to a key manager (or None) and a token.
apply_resolve_identity(api_key_manager, token) ==
    /\ probe = NoProbe
    /\ probe' = [fn |-> "resolve_identity", api_key_manager |-> api_key_manager,
                 token |-> token, out |-> resolve_identity(api_key_manager, token)]
    /\ UNCHANGED <<lifeVars, sessVars, callVars>>

\* The opening of an admin tool applied to a session holding `identity`, an
\* account_id argument and the AppContext's key manager (or None).
apply_admin_opening(tool, identity, account_id, api_key_manager) ==
    /\ probe = NoProbe
    /\ LET gate == ToolGate(tool, identity, account_id) IN
       probe' = [fn |-> "admin_opening", tool |-> tool, identity |-> identity,
                 account_id |-> account_id,
                 km_present |-> api_key_manager # NoneObj,
                 gate |-> gate, out |-> admin_opening(gate, api_key_manager)]
    /\ UNCHANGED <<lifeVars, sessVars, callVars>>

\* from_ov_conf applied to a config file that is missing or holds `data`.
apply_from_ov_conf(exists, data) ==
    /\ probe = NoProbe
    /\ probe' = [fn |-> "from_ov_conf", exists |-> exists, data |-> data,
                 out |-> from_ov_conf(exists, data)]
    /\ UNCHANGED <<lifeVars, sessVars, callVars>>

\* Every way the keys of a section are absent, null or set.
Hows == [ConfKeys -> {"absent", "null", "set"}]

\* The config documents: each section missing or present with each key
\* absent, null or set.
Documents ==
    {Document(hs, Section(s, ServerValues), hm, Section(m, McpValues)) :
        hs \in BOOLEAN, s \in Hows, hm \in BOOLEAN, m \in Hows}

\* format_error applied to a domain error.
apply_format_error(e) ==
    /\ probe = NoProbe
    /\ probe' = [fn |-> "format_error", e |-> e, out |-> format_error(e)]
    /\ UNCHANGED <<lifeVars, sessVars, callVars>>

\* Values of an error's details: scalars, a tuple and an unserializable
\* object, and lists and dicts of them, nested up to two deep.
Scalars ==
    {PyNone, PyBool(TRUE), PyBool(FALSE), PyStr("Y"), PyInt(7),
     PyTuple(<<PyInt(7)>>), PyObject("boom")}
Nested == Scalars \cup {PyList(<<>>), PyDict(EmptyDict)} \cup {PyList(<<x>>) : x \in Scalars}
Details == Nested \cup {PyDict([k |-> x]) : x \in Nested}

\* Domain errors: a code, a message and details.
DomainErrors ==
    {[code |-> PyStr(c), message |-> PyStr(m), details |-> d] :
        c \in {"X", "NOT_FOUND"}, m \in {"Y", ""}, d \in Details}

\* Key managers whose lookup does `o` for `token` and faults for the others.
KeyManagers ==
    {APIKeyManager("secret", [t \in Tokens |-> IF t = token THEN o ELSE Raise("OpenVikingError")]) :
        token \in Tokens, o \in LookupOutcomes}

FnNext ==
    \/ \E id \in AllIdentities \cup {NoneObj} : apply_require_root(id)
    \/ \E id \in AllIdentities \cup {NoneObj}, a \in GateAccounts :
          apply_require_admin_or_root(id, a)
    \/ \E id \in AllIdentities \cup {NoneObj} : apply_get_request_context(id)
    \/ \E km \in KeyManagers \cup {NoneObj}, t \in Tokens : apply_resolve_identity(km, t)
    \/ \E tool \in AdminTools, id \in AllIdentities \cup {NoneObj}, a \in GateAccounts,
          km \in {NoneObj, APIKeyManager("secret", LoadedLookup("secret"))} :
          apply_admin_opening(tool, id, a, km)
    \/ \E data \in Documents : apply_from_ov_conf(TRUE, data)
    \/ apply_from_ov_conf(FALSE, EmptyDict)
    \/ \E e \in DomainErrors : apply_format_error(e)

FnSpec == Init /\ [][FnNext]_vars

\* ------------------------------------------------------------------ claims

\* The request context the gates and tools build for a session slot, written
\* out from the slot's fields.
CtxRole(identity) == IF identity = NoneObj THEN "ROOT" ELSE identity.role
CtxAccount(identity) ==
    IF identity = NoneObj THEN "default"
    ELSE IF identity.account_id \in {None, ""} THEN "default"
    ELSE identity.account_id

\* C1: _require_admin_or_root authorizes (returns None) exactly when the role
\* is ROOT, or the role is ADMIN and the context's account is the target
\* account; otherwise it returns the PERMISSION_DENIED denial with the message
\* "ROOT or account ADMIN role required".
C1_AdminOrRootGate ==
    probe.fn = "_require_admin_or_root" =>
        LET allowed == \/ CtxRole(probe.identity) = "ROOT"
                       \/ /\ CtxRole(probe.identity) = "ADMIN"
                          /\ CtxAccount(probe.identity) = probe.account_id
        IN /\ allowed => probe.out = NoneObj
           /\ ~allowed => probe.out = [error |-> TRUE, code |-> "PERMISSION_DENIED",
                                       message |-> "ROOT or account ADMIN role required"]

\* An ADMIN of another account than the target has been denied.
C1_Witness ==
    /\ probe.fn = "_require_admin_or_root"
    /\ probe.identity # NoneObj
    /\ probe.identity.role = "ADMIN"
    /\ probe.identity.account_id = "acme"
    /\ probe.account_id = "other"
    /\ probe.out # NoneObj

\* C2: _require_root authorizes exactly when the role is ROOT; ADMIN and USER
\* get the PERMISSION_DENIED denial with the message "ROOT role required".
C2_RootGate ==
    probe.fn = "_require_root" =>
        /\ CtxRole(probe.identity) = "ROOT" => probe.out = NoneObj
        /\ CtxRole(probe.identity) \in {"ADMIN", "USER"} =>
              probe.out = [error |-> TRUE, code |-> "PERMISSION_DENIED",
                           message |-> "ROOT role required"]

\* An ADMIN has been denied by _require_root.
C2_Witness ==
    /\ probe.fn = "_require_root"
    /\ probe.identity # NoneObj
    /\ probe.identity.role = "ADMIN"
    /\ probe.out # NoneObj

\* C5: for a cached identity, each field of the built UserIdentifier is the
\* identity's value when present and "default" when None or empty, no field is
\* None or empty, and the role is the identity's role.
C5_DefaultSubstitution ==
    (probe.fn = "get_request_context" /\ probe.identity # NoneObj) =>
        LET id == probe.identity
            sub(x) == IF x = None \/ x = "" THEN "default" ELSE x
        IN /\ probe.out.user.account = sub(id.account_id)
           /\ probe.out.user.user = sub(id.user_id)
           /\ probe.out.user.agent = sub(id.agent_id)
           /\ {probe.out.user.account, probe.out.user.user, probe.out.user.agent}
                 \cap {None, ""} = {}
           /\ probe.out.role = id.role

\* A context has been built from an identity with a missing account, an empty
\* user and a present agent.
C5_Witness ==
    /\ probe.fn = "get_request_context"
    /\ probe.identity # NoneObj
    /\ probe.identity.account_id = None
    /\ probe.identity.user_id = ""
    /\ probe.identity.agent_id = "bot"
    /\ probe.out.user = [account |-> "default", user |-> "default", agent |-> "bot"]

\* C6: resolve_identity never raises; without a key-store it returns None, with
\* one it returns the lookup's result when the lookup returns and None when the
\* lookup faults.
C6_ResolveNeverRaises ==
    probe.fn = "resolve_identity" =>
        /\ probe.out.kind = "return"
        /\ probe.api_key_manager = NoneObj => probe.out.value = NoneObj
        /\ probe.api_key_manager # NoneObj =>
              LET r == probe.api_key_manager.lookup[probe.token] IN
              /\ r.kind = "return" => probe.out.value = r.value
              /\ r.kind = "raise" => probe.out.value = NoneObj

\* A lookup that faulted with something other than the domain error has been
\* turned into None.
C6_Witness ==
    /\ probe.fn = "resolve_identity"
    /\ probe.api_key_manager # NoneObj
    /\ probe.api_key_manager.lookup[probe.token] = Raise("ValueError")
    /\ probe.out = Return(NoneObj)

AnonymousRoot == [user |-> [account |-> "default", user |-> "default", agent |-> "default"],
                  role |-> "ROOT"]

Denial(message) == [error |-> TRUE, code |-> "PERMISSION_DENIED", message |-> message]

\* C3: whenever a call found no identity on its session and so ran as ROOT, the
\* AppContext has no key manager.
C3_RootFallbackOnlyInDevMode ==
    (last.tool # "none" /\ last.identity = NoneObj /\ last.ctx.role = "ROOT") =>
        app.api_key_manager = NoneObj

\* C4: with no identity on the session and no root credential configured, the
\* context built for a call is UserIdentifier("default","default","default")
\* with role ROOT, whichever the call and the session.
C4_DevModeContext ==
    (last.tool # "none" /\ last.identity = NoneObj /\ ~Truthy(config.root_api_key)) =>
        /\ last.ctx = AnonymousRoot
        /\ last.tool = "system_status" =>
              (last.resp.user = AnonymousRoot.user /\ last.resp.role = "ROOT")

\* The second session has had its status reported in a process without a root
\* credential, after an earlier call.
C4_Witness ==
    /\ last.tool = "system_status"
    /\ last.session = "s2"
    /\ last.n = 2
    /\ last.identity = NoneObj
    /\ config.root_api_key = None
    /\ last.resp.role = "ROOT"

\* C7: without a key manager, an admin tool whose role gate passed answers
\* "Auth not configured (dev mode)" and calls neither the key manager nor the
\* service; the anonymous ROOT caller of admin_create_account passes the gate
\* and gets that denial; the key manager's store stays as it was and no
\* handler is left suspended.
C7_DevModeDenial ==
    /\ (last.tool \in AdminTools /\ ~last.km_present /\ last.gate = NoneObj) =>
          /\ last.resp = Denial("Auth not configured (dev mode)")
          /\ last.km_op = "none"
          /\ last.svc_op = "none"
    /\ (last.tool = "admin_create_account" /\ ~last.km_present /\ last.identity = NoneObj) =>
          /\ last.gate = NoneObj
          /\ last.resp = Denial("Auth not configured (dev mode)")
    /\ (app # NoneObj /\ app.api_key_manager = NoneObj) =>
          /\ km_store = [accounts |-> {}, users |-> {}]
          /\ \A s \in Sessions : inv[s] = Idle

\* The anonymous caller of admin_create_account has been denied in dev mode.
C7_Witness ==
    /\ last.tool = "admin_create_account"
    /\ ~last.km_present
    /\ last.identity = NoneObj
    /\ last.gate = NoneObj
    /\ last.resp = Denial("Auth not configured (dev mode)")

\* C8: a step of a ROOT-only admin tool for a caller whose role is not ROOT
\* answers "ROOT role required", calls neither the key manager nor the service,
\* suspends nothing and leaves the key manager's store unchanged.
C8_RootOnlyTools ==
    [][(last' # last /\ last'.tool \in RootOnlyTools /\ last'.ctx.role # "ROOT") =>
          /\ last'.resp = Denial("ROOT role required")
          /\ last'.km_op = "none"
          /\ last'.svc_op = "none"
          /\ km_store' = km_store
          /\ inv' = inv]_vars

\* An ADMIN of the target account has been denied admin_set_role on it.
C8_Witness ==
    /\ last.tool = "admin_set_role"
    /\ last.ctx.role = "ADMIN"
    /\ last.ctx.user.account = last.account_id
    /\ last.km_present
    /\ last.resp = Denial("ROOT role required")

\* C9: an account-scoped admin tool calls the key manager for account A only
\* for a caller that is ROOT or an ADMIN whose account is A; any other caller,
\* a USER of A included, gets "ROOT or account ADMIN role required".
C9_AccountScopedTools ==
    last.tool \in AccountTools =>
        LET allowed == \/ last.ctx.role = "ROOT"
                       \/ /\ last.ctx.role = "ADMIN"
                          /\ last.ctx.user.account = last.account_id
        IN /\ last.km_op # "none" => allowed
           /\ ~allowed => last.resp = Denial("ROOT or account ADMIN role required")
           /\ (allowed /\ last.km_present) => last.km_op # "none"

\* An ADMIN of "acme" has had the key manager called for "acme".
C9_Witness ==
    /\ last.tool = "admin_register_user"
    /\ last.ctx.role = "ADMIN"
    /\ last.ctx.user.account = "acme"
    /\ last.account_id = "acme"
    /\ last.km_op = "register_user"

\* C10 as stated: from READY onward the key manager is present exactly when the
\* startup config holds a root_api_key, whatever its value.
C10_KeyManagerIffConfigured ==
    state \in {"READY", "CLOSING", "CLOSED"} =>
        (app.api_key_manager # NoneObj <=> config.root_api_key # None)

\* C10 amended: from READY onward the key manager is present exactly when the
\* startup config's root_api_key is a non-empty string; later calls of
\* create_mcp_server and tool invocations do not change that.
C10_KeyManagerIffTruthyKey ==
    state \in {"READY", "CLOSING", "CLOSED"} =>
        /\ app # NoneObj
        /\ app.api_key_manager # NoneObj <=> Truthy(config.root_api_key)

\* A process started with a root key has served a call after create_mcp_server
\* was called again without one.
C10_Witness ==
    /\ state = "READY"
    /\ app.api_key_manager # NoneObj
    /\ config.root_api_key = "secret"
    /\ _server_config.root_api_key = None
    /\ last.tool # "none"

\* C11: service.close() has not run in any state up to and including CLOSING;
\* once serving has ended, by shutdown or by a fault, closing is the step that
\* follows; in CLOSED it has run exactly once, whichever way serving ended; it
\* never runs a second time.
C11_CloseExactlyOnce ==
    /\ closes <= 1
    /\ state \in {"UNINITIALIZED", "STARTING", "READY", "FAILED"} =>
          (closes = 0 /\ exit_cause = "none")
    /\ state = "CLOSING" =>
          /\ closes = 0
          /\ service = "initialized"
          /\ exit_cause \in ExitCauses
          /\ ENABLED app_lifespan_closed
    /\ state = "CLOSED" =>
          /\ closes = 1
          /\ service = "closed"
          /\ exit_cause \in ExitCauses

\* A process that served a call and was ended by a fault has closed its service.
C11_Witness ==
    /\ state = "CLOSED"
    /\ exit_cause = "fault"
    /\ last.tool # "none"
    /\ closes = 1
    /\ service = "closed"

\* C12: when constructing or loading the key manager fails after the service
\* was initialized, the lifespan ends there: the service stays initialized,
\* close() is not run, no AppContext exists, and no later step changes any of
\* that (nothing is handed out, nothing is closed afterwards).
C12_NoRollbackOnKeyManagerFailure ==
    [][/\ (state = "STARTING" /\ service = "initialized" /\ state' = "FAILED") =>
             /\ service' = "initialized"
             /\ closes' = 0
             /\ app' = NoneObj
       /\ state = "FAILED" =>
             /\ state' = "FAILED"
             /\ service' = service
             /\ closes' = closes
             /\ app' = NoneObj
             /\ last' = NoCall]_vars

\* The key manager failed to load in a process configured with a root key.
C12_Witness ==
    /\ state = "FAILED"
    /\ service = "initialized"
    /\ Truthy(config.root_api_key)
    /\ app = NoneObj
    /\ closes = 0

\* The lifecycle's forward steps.
Forward ==
    {<<"UNINITIALIZED", "STARTING">>, <<"STARTING", "READY">>,
     <<"READY", "CLOSING">>, <<"CLOSING", "CLOSED">>}

\* The service handle's forward steps.
ServiceForward ==
    {<<"absent", "constructed">>, <<"constructed", "initialized">>,
     <<"initialized", "closed">>}

\* C13: every change of the lifecycle state is one forward step of
\* UNINITIALIZED -> STARTING -> READY -> CLOSING -> CLOSED, or the end of a
\* lifespan whose startup failed in STARTING; the service handle only moves
\* absent -> constructed -> initialized -> closed; the key manager is built
\* with the service already initialized; the AppContext comes into being on the
\* step into READY, after the service is initialized and, with a root key, the
\* key manager loaded; tool handlers run in READY only, with the AppContext.
C13_LifespanForwardOnly ==
    [][/\ state' # state =>
             \/ <<state, state'>> \in Forward
             \/ (state = "STARTING" /\ state' = "FAILED")
       /\ service' # service => <<service, service'>> \in ServiceForward
       /\ app' # app =>
             /\ app = NoneObj
             /\ state = "STARTING"
             /\ state' = "READY"
             /\ service' = "initialized"
             /\ app'.service = "service"
             /\ Truthy(config.root_api_key) =>
                   (service = "initialized" /\ app'.api_key_manager # NoneObj)
       /\ (last' # last \/ inv' # inv \/ session_token' # session_token) =>
             (state = "READY" /\ app # NoneObj /\ service = "initialized")]_vars

\* A process with a key manager has served a call, shut down and closed.
C13_Witness ==
    /\ state = "CLOSED"
    /\ exit_cause = "shutdown"
    /\ app.api_key_manager # NoneObj
    /\ service = "closed"
    /\ last.tool # "none"

\* C14: once the AppContext exists no step replaces it or either of its two
\* fields; every handler step, a mutation of the key manager's store included,
\* reads that same AppContext, and so does every invocation suspended at an
\* await while other invocations run.
C14_AppContextNeverReassigned ==
    [][/\ app # NoneObj =>
             /\ app' = app
             /\ app'.service = app.service
             /\ app'.api_key_manager = app.api_key_manager
       /\ last' # last => (last'.app = app /\ last'.app = app')
       /\ \A s \in Sessions : inv'[s] # Idle => inv'[s].call.app = app']_vars

\* While an account creation is suspended on one session, another session has
\* deleted an account; both read the same AppContext.
C14_Witness ==
    /\ state = "READY"
    /\ inv["s1"] # Idle
    /\ last.tool = "admin_delete_account"
    /\ last.session = "s2"
    /\ last.km_op = "delete_account"
    /\ km_store # LoadedStore
    /\ inv["s1"].call.app = app
    /\ last.app = app

\* What a role gate may return: nothing, or an object with exactly the keys
\* error, code and message.
IsGateValue(v) ==
    \/ v = NoneObj
    \/ /\ DOMAIN v = {"error", "code", "message"}
       /\ v.error = TRUE
       /\ v.code = "PERMISSION_DENIED"
       /\ v.message \in {"ROOT role required", "ROOT or account ADMIN role required"}

\* C15: for every session slot and account id, _require_root and
\* _require_admin_or_root return nothing or the object {error: true, code:
\* "PERMISSION_DENIED", message} without a details key, never a fault; an admin
\* tool whose gate denied returns that object as its response, with or without
\* a key manager.
C15_DenialsAreValues ==
    /\ probe.fn \in {"_require_root", "_require_admin_or_root"} => IsGateValue(probe.out)
    /\ probe.fn = "admin_opening" =>
          /\ IsGateValue(probe.gate)
          /\ probe.gate # NoneObj =>
                /\ probe.out = probe.gate
                /\ "details" \notin DOMAIN probe.out
                /\ probe.out # Raised("OpenVikingError")

\* A USER of "acme" asked to register a user in "acme" and got the denial as
\* the tool's response.
C15_Witness ==
    /\ probe.fn = "admin_opening"
    /\ probe.tool = "admin_register_user"
    /\ probe.identity # NoneObj
    /\ probe.identity.role = "USER"
    /\ probe.identity.account_id = "acme"
    /\ probe.account_id = "acme"
    /\ probe.out = Denial("ROOT or account ADMIN role required")

\* C16: in every handler step that called the key manager or the service, a
\* domain error (OpenVikingError) raised by the call comes back as the
\* format_error envelope of that error, an object with the keys error, code,
\* message and details returned as the tool's result; any other fault is not
\* caught and leaves the handler as that fault; a call that returned gives
\* neither.  A step that called nothing has no fault to handle.
C16_OnlyDomainErrorsAbsorbed ==
    last.tool # "none" =>
        /\ last.fault = "OpenVikingError" =>
              /\ last.resp = format_error(DomainError)
              /\ last.resp # Raised("OpenVikingError")
        /\ last.fault \in Faults \ {"OpenVikingError"} => last.resp = Raised(last.fault)
        /\ last.fault = "ok" =>
              \/ last.resp = Pending
              \/ DOMAIN last.resp \cap {"error", "kind"} = {}
        /\ last.fault = "none" <=> (last.km_op = "none" /\ last.svc_op = "none")

\* fs_mkdir, called after an earlier call, met a domain error of the service
\* and answered with its envelope.
C16_Witness ==
    /\ last.tool = "fs_mkdir"
    /\ last.n = 2
    /\ last.svc_op = "fs.mkdir"
    /\ last.fault = "OpenVikingError"
    /\ last.resp = format_error(DomainError)

\* `d.key ?? rest`: the value under the key unless it is absent or null.
Coalesce(d, key, rest) ==
    IF key \in DOMAIN d /\ d[key] # PyNone THEN d[key] ELSE rest

\* The stated merge rule applied to the two sections of a document.
MergeRule(data) ==
    LET server == IF "server" \in DOMAIN data THEN data["server"] ELSE EmptyDict
        mcp == IF "mcp_server" \in DOMAIN data THEN data["mcp_server"] ELSE EmptyDict
    IN [kind |-> "MCPServerConfig",
        host |-> Coalesce(mcp, "host", Coalesce(server, "host", PyStr("0.0.0.0"))),
        port |-> Coalesce(mcp, "port", PyInt(2033)),
        root_api_key |-> Coalesce(mcp, "root_api_key",
                                  Coalesce(server, "root_api_key", PyNone)),
        cors_origins |-> Coalesce(mcp, "cors_origins",
                                  Coalesce(server, "cors_origins", PyList(<<PyStr("*")>>)))]

\* C17 as stated: for every document whose keys are each absent, null or set
\* in each section, from_ov_conf returns what the merge rule gives: host,
\* root_api_key and cors_origins from mcp_server, else server, else the
\* default, and port from mcp_server else 2033, a null counting as absent.
C17_MergeRule ==
    (probe.fn = "from_ov_conf" /\ probe.exists) => probe.out = MergeRule(probe.data)

\* A value json reads back as it was written: None, bool, str, int, and lists
\* and dicts of such values.
RECURSIVE JsonNative(_)
JsonNative(obj) ==
    \/ obj.py \in {"NoneType", "bool", "str", "int"}
    \/ obj.py = "list" /\ \A i \in DOMAIN obj.v : JsonNative(obj.v[i])
    \/ obj.py = "dict" /\ \A k \in DOMAIN obj.v : JsonNative(obj.v[k])

\* C18: for every domain error with code c, message m and JSON-native details
\* d, the text format_error returns parses to the object with exactly the keys
\* error, code, message and details, holding true, c, m and d.
C18_FormatErrorRoundTrip ==
    (probe.fn = "format_error" /\ JsonNative(probe.e.details)) =>
        LET parsed == json_loads(probe.out) IN
        /\ parsed.py = "dict"
        /\ DOMAIN parsed.v = {"error", "code", "message", "details"}
        /\ parsed.v.error = PyBool(TRUE)
        /\ parsed.v.code = probe.e.code
        /\ parsed.v.message = probe.e.message
        /\ parsed.v.details = probe.e.details

\* An error whose details are a dict holding a list has been formatted and
\* parses back to the same details.
C18_Witness ==
    /\ probe.fn = "format_error"
    /\ probe.e.code = PyStr("X")
    /\ probe.e.details = PyDict([k |-> PyList(<<PyInt(7)>>)])
    /\ json_loads(probe.out).v.details = PyDict([k |-> PyList(<<PyInt(7)>>)])

\* C19: the request context of every handler step on a session is the one
\* get_request_context builds from that session's own slot as the handler read
\* it (at its start, also for a step after an await), whatever the other
\* session holds and whatever was called on it; a tool call changes no slot;
\* a session's slot is written only by the auth step of that session, while
\* the slot is empty, and that leaves the other session's slot as it was.
C19_SessionIsolation ==
    [][/\ (last' # last /\ last'.tool # "none") =>
             /\ ncalls' # ncalls => last'.identity = _ov_identity[last'.session]
             /\ ncalls' = ncalls => last'.identity = inv[last'.session].call.identity
             /\ last'.ctx = get_request_context(last'.identity)
             /\ last'.ctx.role = CtxRole(last'.identity)
             /\ last'.ctx.user.account = CtxAccount(last'.identity)
             /\ _ov_identity' = _ov_identity
             /\ session_token' = session_token
       /\ \A s \in Sessions :
             (_ov_identity'[s] # _ov_identity[s] \/ session_token'[s] # session_token[s]) =>
                 \/ state' = "CLOSING"
                 \/ /\ _ov_identity[s] = NoneObj
                    /\ \A t \in Sessions \ {s} :
                          /\ _ov_identity'[t] = _ov_identity[t]
                          /\ session_token'[t] = session_token[t]]_vars

\* With a ROOT call suspended on the first session, a call on the second
\* session ran as the USER that session holds.
C19_Witness ==
    /\ state = "READY"
    /\ inv["s1"] # Idle
    /\ inv["s1"].call.ctx.role = "ROOT"
    /\ _ov_identity["s1"] # _ov_identity["s2"]
    /\ last.session = "s2"
    /\ last.tool = "fs_mkdir"
    /\ last.ctx.role = "USER"
    /\ last.ctx.user.account = "acme"

\* C20: in every admin tool, for every session slot and account id, a caller
\* the role gate denies gets the gate's denial ("ROOT role required" or "ROOT
\* or account ADMIN role required") with and without a key manager; "Auth not
\* configured (dev mode)" answers only a caller that passed the gate, and
\* only when there is no key manager.
C20_GateBeforeKeyManagerCheck ==
    probe.fn = "admin_opening" =>
        /\ probe.gate # NoneObj =>
              /\ probe.out = probe.gate
              /\ probe.out = Denial(IF probe.tool \in RootOnlyTools
                                    THEN "ROOT role required"
                                    ELSE "ROOT or account ADMIN role required")
        /\ probe.out = Denial("Auth not configured (dev mode)") =>
              /\ probe.gate = NoneObj
              /\ ~probe.km_present
        /\ (probe.gate = NoneObj /\ ~probe.km_present) =>
              probe.out = Denial("Auth not configured (dev mode)")
        /\ (probe.gate = NoneObj /\ probe.km_present) => probe.out = NoneObj

\* An ADMIN of another account asked to create an account on a server without
\* a key manager and got the role denial.
C20_Witness ==
    /\ probe.fn = "admin_opening"
    /\ probe.tool = "admin_create_account"
    /\ ~probe.km_present
    /\ probe.identity # NoneObj
    /\ probe.identity.role = "ADMIN"
    /\ probe.out = Denial("ROOT role required")

\* The caller a role gate lets through for a tool and its account argument.
Authorized(tool, ctx, account_id) ==
    \/ ctx.role = "ROOT"
    \/ /\ tool \in AccountTools
       /\ ctx.role = "ADMIN"
       /\ ctx.user.account = account_id

\* C21: in every step of an admin tool that has called the key manager or the
\* service, the request context the handler holds and passes on is the one
\* built from the identity the gate judged, and the gate authorized its role
\* and account; that stays so in the step after the await when an identity
\* was attached to the session, or other invocations ran, in between.
C21_DispatchUsesGatedIdentity ==
    (last.tool \in AdminTools /\ (last.km_op # "none" \/ last.svc_op # "none")) =>
        /\ last.gate = NoneObj
        /\ last.ctx.role = CtxRole(last.identity)
        /\ last.ctx.user.account = CtxAccount(last.identity)
        /\ Authorized(last.tool, last.ctx, last.account_id)

\* An account creation begun on a session without identity has passed its
\* context to the service after a USER identity was attached to the session.
C21_Witness ==
    /\ state = "READY"
    /\ last.tool = "admin_create_account"
    /\ last.svc_op = "initialize_account_directories"
    /\ last.identity = NoneObj
    /\ _ov_identity[last.session] # NoneObj
    /\ _ov_identity[last.session].role = "USER"
    /\ last.ctx.role = "ROOT"

\* C22: admin_create_account and admin_register_user change the key manager's
\* store in their first step, before the directory initialization is called;
\* the step that follows the initialization leaves the store as it finds it,
\* so on a domain error the account or user stays, and the response is then
\* the error envelope, without the user_key the first step generated; on
\* success the response carries that user_key.
C22_NoRollbackOfKeyManagerMutation ==
    [][\A s \in Sessions :
          /\ (inv[s] = Idle /\ inv'[s] # Idle) =>
                /\ inv'[s].call.km_op \in {"create_account", "register_user"}
                /\ inv'[s].call.svc_op = "none"
                /\ km_store' # km_store
                /\ inv'[s].call.account_id \in km_store'.accounts
                /\ \E r \in RoleArgs :
                      <<inv'[s].call.account_id, inv'[s].user_id, r>> \in km_store'.users
          /\ (inv[s] # Idle /\ inv'[s] = Idle /\ state' = "READY") =>
                /\ last'.session = s
                /\ last'.svc_op \in {"initialize_account_directories",
                                     "initialize_user_directories"}
                /\ km_store' = km_store
                /\ last'.fault = "OpenVikingError" =>
                      /\ last'.resp = format_error(DomainError)
                      /\ DOMAIN json_loads(last'.resp).v =
                            {"error", "code", "message", "details"}
                /\ last'.fault = "ok" => last'.resp.user_key = inv[s].user_key]_vars

\* An account creation failed at the directory initialization with a domain
\* error; the account and its admin are in the key manager's store.
C22_Witness ==
    /\ last.tool = "admin_create_account"
    /\ last.svc_op = "initialize_account_directories"
    /\ last.fault = "OpenVikingError"
    /\ last.resp = format_error(DomainError)
    /\ last.n = ncalls
    /\ last.account_id \in km_store.accounts
    /\ \E u \in Users : <<last.account_id, u, "admin">> \in km_store.users

\* C23 as stated: the lifespan of a server reads the config given to the
\* create_mcp_server call that created it, and from READY onward its
\* AppContext has a key manager exactly when that config's root_api_key calls
\* for one, whatever other calls of create_mcp_server were made.
C23_LifespanUsesOwnConfig ==
    (own_config # NoneObj /\ state # "UNINITIALIZED") =>
        /\ config = own_config
        /\ state \in {"READY", "CLOSING", "CLOSED"} =>
              (app.api_key_manager # NoneObj <=> Truthy(own_config.root_api_key))
====
